---- MODULE Spec2Model ----
(***************************************************************************)
(* Model of Package::install (src/src/package.rs): the install pipeline of *)
(* one package, step by step at the granularity of its system calls, over  *)
(* an explicit filesystem (source directory, generated build.zig, cargo    *)
(* output directory, shared binary directory).                             *)
(***************************************************************************)
EXTENDS Naturals, Sequences, FiniteSets, TLC

VARIABLES pkg, quota, pc, idx, res, installs, running, exits, trace,
          srcDir, checkout, buildFile, target, bin, snap, load, writer

vars == <<pkg, quota, pc, idx, res, installs, running, exits, trace,
          srcDir, checkout, buildFile, target, bin, snap, load, writer>>

fsVars == <<srcDir, checkout, buildFile, target, bin>>

(* ------------------------------ bounds --------------------------------- *)
MaxInstalls == 2
MaxArtifacts == 2
MaxBeta == 2

(* ------------------------------ data ----------------------------------- *)
Procs == {1, 2}
PkgNames == {"p", "q"}
Names == {"a", "b"}

None == <<>>
Some(v) == <<v>>

Bin(name, rename_to) == [tag |-> "Bin", name |-> name, rename_to |-> rename_to]
Sym(name, points_to) == [tag |-> "Sym", name |-> name, points_to |-> points_to]

ArtifactSet ==
    { Bin("a", None), Bin("a", Some("b")), Bin("b", Some("b")),
      Sym("a", "b"), Sym("b", "a") }

SeqsUpTo(S, n) == UNION { [1..k -> S] : k \in 0..n }

ArtifactLists == SeqsUpTo(ArtifactSet, MaxArtifacts)

(* beta_artifacts labels are character sequences, sources are strings *)
LibZ == <<"l", "i", "b", " ", "z">>
BinT == <<"b", "i", "n", " ", "t">>
Other == <<"l", "i", "b", "z">>

BetaLists ==
    { <<>>, << <<LibZ, <<"z.c">> >>, <<Other, <<"o.c">> >>, <<BinT, <<"t.c", "u.c">> >> >> }

Package(name, artifacts, beta) ==
    [name |-> name, artifacts |-> artifacts, beta_artifacts |-> beta]

NoPackage == Package("p", <<>>, <<>>)

(* --------------------------- filesystem -------------------------------- *)
Absent == [kind |-> "none", data |-> <<>>]
File(data) == [kind |-> "file", data |-> data]
Partial(data) == [kind |-> "partial", data |-> data]
Link(to) == [kind |-> "sym", data |-> <<to>>]

OldFile == File(<<"old", "old", "stale">>)

NoFile == << <<"absent">> >>

RECURSIVE ResolveN(_, _, _)
ResolveN(b, n, fuel) ==
    IF b[n].kind # "sym" THEN n
    ELSE IF fuel = 0 \/ b[n].data[1] \notin DOMAIN b THEN "ELOOP"
    ELSE ResolveN(b, b[n].data[1], fuel - 1)

Resolve(b, n) == ResolveN(b, n, Cardinality(DOMAIN b))

(* ---------------------- build.zig generation --------------------------- *)
(* A line is a sequence of text pieces; one element per writeln! call.     *)
T(s) == <<s>>

StartsWith(s, prefix) ==
    /\ Len(s) >= Len(prefix)
    /\ SubSeq(s, 1, Len(prefix)) = prefix

(* str::strip_prefix: Some(rest) or None *)
StripPrefix(s, prefix) ==
    IF StartsWith(s, prefix) THEN Some(SubSeq(s, Len(prefix) + 1, Len(s))) ELSE None

RECURSIVE Join(_, _)
Join(pieces, sep) ==
    IF Len(pieces) = 0 THEN <<>>
    ELSE IF Len(pieces) = 1 THEN pieces[1]
    ELSE pieces[1] \o sep \o Join(Tail(pieces), sep)

Quoted(sources) == [i \in 1..Len(sources) |-> <<"\"", sources[i], "\"">>]

JoinSources(sources) == Join(Quoted(sources), T(",\n        "))

Preamble ==
    << T("const std = @import(\"std\");"),
       <<>>,
       T("pub fn build(b: *std.Build) void {"),
       T("    const optimize = b.standardOptimizeOption(.{});"),
       T("    const target = b.standardTargetOptions(.{});"),
       <<>> >>

LibTarget(artifact, sources) ==
    << T("    const lib") \o artifact \o T(" = b.addStaticLibrary(.{"),
       T("        .link_libc = true,"),
       T("        .name = \"") \o artifact \o T("\","),
       T("        .optimize = optimize,"),
       T("        .target = target,"),
       T("    });"),
       <<>>,
       T("    lib") \o artifact \o T(".addCSourceFiles(&.{"),
       T("        ") \o sources,
       T("        },"),
       T("        &[_][]const u8{},"),
       T("    );"),
       T("    lib") \o artifact \o T(".addIncludePath(\"lib\");"),
       T("    lib") \o artifact \o T(".addIncludePath(\"lib/common\");"),
       <<>>,
       T("    b.installArtifact(lib") \o artifact \o T(");"),
       <<>> >>

BinTarget(artifact, sources) ==
    << T("    const ") \o artifact \o T(" = b.addExecutable(.{"),
       T("        .link_libc = true,"),
       T("        .name = \"") \o artifact \o T("\","),
       T("        .optimize = optimize,"),
       T("        .target = target,"),
       T("    });"),
       <<>>,
       T("    ") \o artifact \o T(".addCSourceFiles(&.{"),
       T("        ") \o sources,
       T("        },"),
       T("        &[_][]const u8{},"),
       T("    );"),
       T("    ") \o artifact \o T(".addIncludePath(\"lib\");"),
       T("    ") \o artifact \o T(".addIncludePath(\"lib/common\");"),
       T("    ") \o artifact \o T(".addObjectFile(\"zig-out/lib/libzstd.a\");"),
       <<>>,
       T("    b.installArtifact(") \o artifact \o T(");"),
       <<>> >>

LibPrefix == <<"l", "i", "b", " ">>
BinPrefix == <<"b", "i", "n", " ">>

(* mutant: the prefixes are tested without their trailing space *)
EntryLinesNoSpace(entry) ==
    LET label == entry[1]
        sources == JoinSources(entry[2])
        lib == StripPrefix(label, <<"l", "i", "b">>)
        exe == StripPrefix(label, <<"b", "i", "n">>)
    IN  (IF lib # None THEN LibTarget(lib[1], sources) ELSE <<>>)
        \o (IF exe # None THEN BinTarget(exe[1], sources) ELSE <<>>)

(* the lines one beta_artifacts entry contributes: two independent `if let` *)
EntryLines(entry) ==
    LET label == entry[1]
        sources == JoinSources(entry[2])
        lib == StripPrefix(label, LibPrefix)
        exe == StripPrefix(label, BinPrefix)
    IN  (IF lib # None THEN LibTarget(lib[1], sources) ELSE <<>>)
        \o (IF exe # None THEN BinTarget(exe[1], sources) ELSE <<>>)

RECURSIVE TargetLines(_)
TargetLines(beta) ==
    IF Len(beta) = 0 THEN <<>>
    ELSE EntryLines(Head(beta)) \o TargetLines(Tail(beta))

Closing == << T("}") >>

BuildZig(beta) == Preamble \o TargetLines(beta) \o Closing

(* ------------------------------ events --------------------------------- *)
(* one record per observable step of an install, in program order;         *)
(* writer[n] is the caller whose copy or symlink to root/bin/n succeeded    *)
(* last (0: none yet)                                                       *)
E(op, what, i, ok) == [op |-> op, what |-> what, i |-> i, ok |-> ok]

Tools == {"gix", "zig", "cargo"}
NotRun == [t \in Tools |-> "none"]

Upd(f, p, v) == [f EXCEPT ![p] = v]

Me(p) == pkg[p].name
Artifacts(p) == pkg[p].artifacts

(* Result::Err leaving install through `?` *)
Abort(p, ev) ==
    /\ trace' = Upd(trace, p, Append(trace[p], ev))
    /\ res' = Upd(res, p, "err")
    /\ pc' = Upd(pc, p, "idle")

Step(p, ev, next) ==
    /\ trace' = Upd(trace, p, Append(trace[p], ev))
    /\ pc' = Upd(pc, p, next)
    /\ res' = res

(* ------------------------------ Init ----------------------------------- *)
(* what from_path returned to the caller; nothing before it is called *)
NoLoad == [status |-> "none", name |-> "", content |-> <<>>, path |-> <<>>]

InitBins ==
    { [n \in Names |-> Absent],
      [n \in Names |-> IF n = "a" THEN OldFile ELSE Absent],
      [n \in Names |-> IF n = "b" THEN Link("a") ELSE Absent],
      [n \in Names |-> IF n = "a" THEN Link("b") ELSE OldFile] }

DefaultBeta ==
    << <<LibZ, <<"z.c">> >>, <<Other, <<"o.c">> >>, <<BinT, <<"t.c", "u.c">> >> >>

InitFs ==
    /\ srcDir \in [PkgNames -> BOOLEAN]
    /\ checkout \in [PkgNames -> {"none", "valid"}]
    /\ \A n \in PkgNames : checkout[n] = "valid" => srcDir[n]
    /\ buildFile = [n \in PkgNames |-> NoFile]
    /\ target \in [PkgNames -> {[n \in Names |-> "none"], [n \in Names |-> "stale"]}]
    /\ \A n \in PkgNames : ~srcDir[n] => target[n] = [m \in Names |-> "none"]
    /\ bin \in InitBins

InitProcs ==
    /\ idx = [p \in Procs |-> 0]
    /\ res = [p \in Procs |-> "none"]
    /\ installs = [p \in Procs |-> 0]
    /\ running = [p \in Procs |-> {}]
    /\ exits = [p \in Procs |-> NotRun]
    /\ trace = [p \in Procs |-> <<>>]
    /\ snap = [p \in Procs |-> bin]
    /\ load = [p \in Procs |-> NoLoad]
    /\ writer = [n \in Names |-> 0]

(* One call of install for package "p", from any state earlier runs or the *)
(* administrator may have left the tree in; nothing ever touched root/src/q *)
Init ==
    /\ quota = [p \in Procs |-> 1]
    /\ \E arts \in ArtifactLists :
           pkg = [p \in Procs |-> IF p = 1 THEN Package("p", arts, DefaultBeta) ELSE NoPackage]
    /\ pc = [p \in Procs |-> IF p = 1 THEN "idle" ELSE "off"]
    /\ InitFs
    /\ ~srcDir["q"]
    /\ InitProcs

(* ------------------------------ install -------------------------------- *)
(* install() is entered: lines 60-69 *)
Begin(p) ==
    /\ pc[p] = "idle"
    /\ installs[p] < quota[p]
    /\ installs' = Upd(installs, p, installs[p] + 1)
    /\ pc' = Upd(pc, p, "check")
    /\ res' = Upd(res, p, "none")
    /\ trace' = Upd(trace, p, <<>>)
    /\ exits' = Upd(exits, p, NotRun)
    /\ idx' = Upd(idx, p, 0)
    /\ snap' = Upd(snap, p, bin)
    /\ UNCHANGED <<pkg, quota, load, writer, running>>
    /\ UNCHANGED fsVars

(* mutant: the existence test is dropped, every install clones *)
CheckDirAlwaysClone(p) ==
    /\ pc[p] = "check"
    /\ Step(p, E("exists", Me(p), 0, srcDir[Me(p)]), "mkdir")
    /\ UNCHANGED <<pkg, quota, load, writer, idx, installs, running, exits, snap>>
    /\ UNCHANGED fsVars

(* if source_dir.exists(): line 71 *)
CheckDir(p) ==
    /\ pc[p] = "check"
    /\ Step(p, E("exists", Me(p), 0, srcDir[Me(p)]),
            IF srcDir[Me(p)] THEN "spawn_fetch" ELSE "mkdir")
    /\ UNCHANGED <<pkg, quota, load, writer, idx, installs, running, exits, snap>>
    /\ UNCHANGED fsVars

(* mutant: the create_dir error is dropped (let _ = ...) *)
MkDirIgnored(p) ==
    /\ pc[p] = "mkdir"
    /\ \/ /\ ~srcDir[Me(p)]
          /\ srcDir' = [srcDir EXCEPT ![Me(p)] = TRUE]
          /\ Step(p, E("mkdir", Me(p), 0, TRUE), "spawn_clone")
       \/ /\ Step(p, E("mkdir", Me(p), 0, FALSE), "spawn_clone")
          /\ UNCHANGED srcDir
    /\ UNCHANGED <<pkg, quota, load, writer, idx, installs, running, exits, snap>>
    /\ UNCHANGED <<checkout, buildFile, target, bin>>

(* mutant: fs::create_dir_all, which succeeds on an existing directory *)
MkDirAll(p) ==
    /\ pc[p] = "mkdir"
    /\ \/ /\ srcDir' = [srcDir EXCEPT ![Me(p)] = TRUE]
          /\ Step(p, E("mkdir", Me(p), 0, TRUE), "spawn_clone")
       \/ /\ Abort(p, E("mkdir", Me(p), 0, FALSE))
          /\ UNCHANGED srcDir
    /\ UNCHANGED <<pkg, quota, load, writer, idx, installs, running, exits, snap>>
    /\ UNCHANGED <<checkout, buildFile, target, bin>>

(* fs::create_dir(&source_dir)?: line 74 *)
MkDir(p) ==
    /\ pc[p] = "mkdir"
    /\ \/ /\ ~srcDir[Me(p)]
          /\ srcDir' = [srcDir EXCEPT ![Me(p)] = TRUE]
          /\ Step(p, E("mkdir", Me(p), 0, TRUE), "spawn_clone")
       \/ /\ Abort(p, E("mkdir", Me(p), 0, FALSE))
          /\ UNCHANGED srcDir
    /\ UNCHANGED <<pkg, quota, load, writer, idx, installs, running, exits, snap>>
    /\ UNCHANGED <<checkout, buildFile, target, bin>>

(* the pc after the wait that follows a spawn *)
AfterWait(next) ==
    CASE next = "wait_fetch" -> "open_build"
      [] next = "wait_clone" -> "open_build"
      [] next = "wait_zig" -> "spawn_cargo"
      [] next = "wait_cargo" -> "art"

(* mutant: .spawn()? without .wait()?: the child is left running *)
SpawnDetached(p, at, tool, cmd, next) ==
    /\ pc[p] = at
    /\ \/ /\ running' = Upd(running, p, running[p] \cup {tool})
          /\ Step(p, E("spawn", cmd, 0, TRUE), AfterWait(next))
       \/ /\ Abort(p, E("spawn", cmd, 0, FALSE))
          /\ UNCHANGED running
    /\ UNCHANGED <<pkg, quota, load, writer, idx, installs, exits, snap>>
    /\ UNCHANGED fsVars

(* Command::spawn()?: the child runs, or the spawn error leaves install *)
Spawn(p, at, tool, cmd, next) ==
    /\ pc[p] = at
    /\ \/ /\ running' = Upd(running, p, running[p] \cup {tool})
          /\ Step(p, E("spawn", cmd, 0, TRUE), next)
       \/ /\ Abort(p, E("spawn", cmd, 0, FALSE))
          /\ UNCHANGED running
    /\ UNCHANGED <<pkg, quota, load, writer, idx, installs, exits, snap>>
    /\ UNCHANGED fsVars

(* The children are outside the program; what is assumed of them: clone    *)
(* may succeed or fail, fetch and cargo can exit 0 only inside a valid      *)
(* checkout, cargo on exit 0 has (re)built the binaries the manifest names, *)
(* a failing child leaves the tree as it was.                               *)
CanExit(p, cmd, code) ==
    CASE cmd = "clone" -> TRUE
      [] cmd = "fetch" -> code = "nonzero" \/ checkout[Me(p)] = "valid"
      [] cmd = "zig" -> TRUE
      [] cmd = "cargo" -> code = "nonzero" \/ checkout[Me(p)] = "valid"

Produced(p) ==
    { Artifacts(p)[i].name : i \in { j \in 1..Len(Artifacts(p)) : Artifacts(p)[j].tag = "Bin" } }

ChildEffect(p, cmd, code) ==
    /\ checkout' = IF cmd = "clone" /\ code = "zero"
                   THEN [checkout EXCEPT ![Me(p)] = "valid"] ELSE checkout
    /\ target' = IF cmd = "cargo" /\ code = "zero"
                 THEN [target EXCEPT ![Me(p)] =
                          [n \in Names |-> IF n \in Produced(p) THEN "fresh" ELSE @[n]]]
                 ELSE target

(* mutant: the exit status is checked and a failing child ends install *)
WaitChecked(p, at, tool, cmd, next) ==
    /\ pc[p] = at
    /\ running' = Upd(running, p, running[p] \ {tool})
    /\ \/ \E code \in {"zero", "nonzero"} :
             /\ CanExit(p, cmd, code)
             /\ ChildEffect(p, cmd, code)
             /\ exits' = Upd(exits, p, [exits[p] EXCEPT ![tool] = code])
             /\ IF code = "zero"
                THEN Step(p, E("wait", cmd, 0, TRUE), next)
                ELSE Abort(p, E("exit", cmd, 0, FALSE))
       \/ /\ Abort(p, E("wait", cmd, 0, FALSE))
          /\ UNCHANGED <<exits, checkout, target>>
    /\ UNCHANGED <<pkg, quota, load, writer, idx, installs, snap>>
    /\ UNCHANGED <<srcDir, buildFile, bin>>

(* Child::wait()?: the ExitStatus is dropped, only the io::Error leaves.    *)
(* After a failed wait the Child handle is dropped and the child is no      *)
(* longer followed.                                                         *)
Wait(p, at, tool, cmd, next) ==
    /\ pc[p] = at
    /\ running' = Upd(running, p, running[p] \ {tool})
    /\ \/ \E code \in {"zero", "nonzero"} :
             /\ CanExit(p, cmd, code)
             /\ ChildEffect(p, cmd, code)
             /\ exits' = Upd(exits, p, [exits[p] EXCEPT ![tool] = code])
             /\ Step(p, E("wait", cmd, 0, TRUE), next)
       \/ /\ Abort(p, E("wait", cmd, 0, FALSE))
          /\ UNCHANGED <<exits, checkout, target>>
    /\ UNCHANGED <<pkg, quota, load, writer, idx, installs, snap>>
    /\ UNCHANGED <<srcDir, buildFile, bin>>

SpawnFetch(p) == Spawn(p, "spawn_fetch", "gix", "fetch", "wait_fetch")
WaitFetch(p) == Wait(p, "wait_fetch", "gix", "fetch", "open_build")
SpawnClone(p) == Spawn(p, "spawn_clone", "gix", "clone", "wait_clone")
WaitClone(p) == Wait(p, "wait_clone", "gix", "clone", "open_build")

(* mutant: the file is opened without truncate(true) *)
OpenBuildNoTruncate(p) ==
    /\ pc[p] = "open_build"
    /\ \/ /\ buildFile' = [buildFile EXCEPT ![Me(p)] = IF @ = NoFile THEN <<>> ELSE @]
          /\ Step(p, E("open", "build.zig", 0, TRUE), "write_build")
       \/ /\ Abort(p, E("open", "build.zig", 0, FALSE))
          /\ UNCHANGED buildFile
    /\ UNCHANGED <<pkg, quota, load, writer, idx, installs, running, exits, snap>>
    /\ UNCHANGED <<srcDir, checkout, target, bin>>

(* File::options().write(true).create(true).truncate(true).open()?: 100-104 *)
OpenBuild(p) ==
    /\ pc[p] = "open_build"
    /\ \/ /\ buildFile' = [buildFile EXCEPT ![Me(p)] = <<>>]
          /\ Step(p, E("open", "build.zig", 0, TRUE), "write_build")
       \/ /\ Abort(p, E("open", "build.zig", 0, FALSE))
          /\ UNCHANGED buildFile
    /\ UNCHANGED <<pkg, quota, load, writer, idx, installs, running, exits, snap>>
    /\ UNCHANGED <<srcDir, checkout, target, bin>>

(* writing from the start of an open file: what was there beyond the       *)
(* written part stays                                                       *)
Overlay(old, new) ==
    IF Len(old) > Len(new) THEN new \o SubSeq(old, Len(new) + 1, Len(old)) ELSE new

(* the writeln!(..)? sequence of lines 106-177: the k first lines are       *)
(* written; a failing write leaves install with the file as it is then      *)
WriteBuild(p) ==
    /\ pc[p] = "write_build"
    /\ LET full == BuildZig(pkg[p].beta_artifacts)
       IN  \E k \in 0..Len(full) :
             /\ buildFile' = [buildFile EXCEPT ![Me(p)] = Overlay(@, SubSeq(full, 1, k))]
             /\ IF k = Len(full)
                THEN Step(p, E("write", "build.zig", k, TRUE), "spawn_zig")
                ELSE Abort(p, E("write", "build.zig", k, FALSE))
    /\ UNCHANGED <<pkg, quota, load, writer, idx, installs, running, exits, snap>>
    /\ UNCHANGED <<srcDir, checkout, target, bin>>

SpawnZig(p) == Spawn(p, "spawn_zig", "zig", "zig", "wait_zig")
WaitZig(p) == Wait(p, "wait_zig", "zig", "zig", "spawn_cargo")
SpawnCargo(p) == Spawn(p, "spawn_cargo", "cargo", "cargo", "wait_cargo")
WaitCargo(p) == Wait(p, "wait_cargo", "cargo", "cargo", "art")

(* ------------------------- artifact installer -------------------------- *)
Cur(p) == Artifacts(p)[idx[p]]

(* mutant: rename_to is forgotten *)
DstNameNoRename(a) == a.name

(* dst_name: rename_to.as_deref().unwrap_or(src_name) / name: 213, 223 *)
DstName(a) ==
    IF a.tag = "Bin"
    THEN (IF a.rename_to # None THEN a.rename_to[1] ELSE a.name)
    ELSE a.name

(* source text of the log line and of the link: 211, 222 *)
SrcName(a) == IF a.tag = "Bin" THEN a.name ELSE a.points_to

LogKind(a) == IF a.tag = "Bin" THEN "bin" ELSE "sym"

(* mutant: the loop steps over every other artifact *)
ArtLogSkip(p) ==
    /\ pc[p] = "art"
    /\ idx[p] < Len(Artifacts(p))
    /\ LET i == IF idx[p] + 2 <= Len(Artifacts(p)) THEN idx[p] + 2 ELSE idx[p] + 1
       IN  /\ idx' = Upd(idx, p, i)
           /\ Step(p, E("log", LogKind(Artifacts(p)[i]), i, TRUE), "remove")
    /\ snap' = Upd(snap, p, bin)
    /\ UNCHANGED <<pkg, quota, load, writer, installs, running, exits>>
    /\ UNCHANGED fsVars

(* mutant: every line is tagged "bin" *)
ArtLogAsBin(p) ==
    /\ pc[p] = "art"
    /\ idx[p] < Len(Artifacts(p))
    /\ idx' = Upd(idx, p, idx[p] + 1)
    /\ snap' = Upd(snap, p, bin)
    /\ Step(p, E("log", "bin", idx[p] + 1, TRUE), "remove")
    /\ UNCHANGED <<pkg, quota, load, writer, installs, running, exits>>
    /\ UNCHANGED fsVars

(* next iteration of `for arifact in self.artifacts()` and its artifact_log *)
ArtLog(p) ==
    /\ pc[p] = "art"
    /\ idx[p] < Len(Artifacts(p))
    /\ idx' = Upd(idx, p, idx[p] + 1)
    /\ snap' = Upd(snap, p, bin)
    /\ Step(p, E("log", LogKind(Artifacts(p)[idx[p] + 1]), idx[p] + 1, TRUE), "remove")
    /\ UNCHANGED <<pkg, quota, load, writer, installs, running, exits>>
    /\ UNCHANGED fsVars

(* mutant: the entry named after the source is removed, not the destination *)
ArtRemoveSrc(p) ==
    /\ pc[p] = "remove"
    /\ LET dst == Cur(p).name
       IN  \/ /\ bin[dst] # Absent
              /\ bin' = [bin EXCEPT ![dst] = Absent]
              /\ Step(p, E("remove", dst, idx[p], TRUE), "write")
           \/ /\ UNCHANGED bin
              /\ Step(p, E("remove", dst, idx[p], FALSE), "write")
    /\ UNCHANGED <<pkg, quota, load, writer, idx, installs, running, exits, snap>>
    /\ UNCHANGED <<srcDir, checkout, buildFile, target>>

(* mutant: fs::remove_file(&dst_path)?, a failed remove leaves install *)
ArtRemoveChecked(p) ==
    /\ pc[p] = "remove"
    /\ LET dst == DstName(Cur(p))
       IN  \/ /\ bin[dst] # Absent
              /\ bin' = [bin EXCEPT ![dst] = Absent]
              /\ Step(p, E("remove", dst, idx[p], TRUE), "write")
           \/ /\ UNCHANGED bin
              /\ Abort(p, E("remove", dst, idx[p], FALSE))
    /\ UNCHANGED <<pkg, quota, load, writer, idx, installs, running, exits, snap>>
    /\ UNCHANGED <<srcDir, checkout, buildFile, target>>

(* a destination name that is not a single component: joined to            *)
(* binary_dir (214, 224) it names root/bin/../src/q/build.zig, the build    *)
(* file of package q                                                        *)
UpQ == "../src/q/build.zig"

(* the package whose build.zig binary_dir.join(dst) is, for such a name *)
Reached(dst) == "q"

(* let _ = fs::remove_file(&dst_path): 218, 228; the outcome is dropped.   *)
(* The entry (a link itself, not what it leads to) goes away, or the call   *)
(* fails (nothing there, or any other error) and the entry stays.           *)
ArtRemove(p) ==
    /\ pc[p] = "remove"
    /\ LET dst == DstName(Cur(p))
       IN  \/ /\ dst \in Names
              /\ bin[dst] # Absent
              /\ bin' = [bin EXCEPT ![dst] = Absent]
              /\ UNCHANGED buildFile
              /\ Step(p, E("remove", dst, idx[p], TRUE), "write")
           \/ /\ dst \notin Names
              /\ buildFile[Reached(dst)] # NoFile
              /\ buildFile' = [buildFile EXCEPT ![Reached(dst)] = NoFile]
              /\ UNCHANGED bin
              /\ Step(p, E("remove", dst, idx[p], TRUE), "write")
           \/ /\ UNCHANGED <<bin, buildFile>>
              /\ Step(p, E("remove", dst, idx[p], FALSE), "write")
    /\ UNCHANGED <<pkg, quota, load, writer, idx, installs, running, exits, snap>>
    /\ UNCHANGED <<srcDir, checkout, target>>

(* mutant: a failed copy is logged and the loop goes on *)
ArtCopyContinue(p) ==
    /\ pc[p] = "write"
    /\ Cur(p).tag = "Bin"
    /\ LET dst == DstName(Cur(p))
           at == Resolve(bin, dst)
           src == target[Me(p)][Cur(p).name]
           data == <<Me(p), Cur(p).name, src>>
       IN  \/ /\ src # "none" /\ at # "ELOOP"
              /\ bin' = [bin EXCEPT ![at] = File(data)]
              /\ Step(p, E("copy", at, idx[p], TRUE), "art")
              /\ writer' = [writer EXCEPT ![dst] = p]
           \/ /\ src # "none" /\ at # "ELOOP"
              /\ bin' = [bin EXCEPT ![at] = Partial(data)]
              /\ Step(p, E("copy", at, idx[p], FALSE), "art")
              /\ UNCHANGED writer
           \/ /\ UNCHANGED bin
              /\ Step(p, E("copy", at, idx[p], FALSE), "art")
              /\ UNCHANGED writer
    /\ UNCHANGED <<pkg, quota, load, idx, installs, running, exits, snap>>
    /\ UNCHANGED <<srcDir, checkout, buildFile, target>>

(* mutant: an entry found at the destination is kept and the copy reports   *)
(* success                                                                  *)
ArtCopyKeep(p) ==
    /\ pc[p] = "write"
    /\ Cur(p).tag = "Bin"
    /\ LET dst == DstName(Cur(p))
           at == Resolve(bin, dst)
           src == target[Me(p)][Cur(p).name]
           data == <<Me(p), Cur(p).name, src>>
       IN  \/ /\ src # "none" /\ at # "ELOOP"
              /\ bin' = [bin EXCEPT ![at] = IF @ = Absent THEN File(data) ELSE @]
              /\ Step(p, E("copy", at, idx[p], TRUE), "art")
              /\ writer' = [writer EXCEPT ![dst] = p]
           \/ /\ src # "none" /\ at # "ELOOP"
              /\ bin' = [bin EXCEPT ![at] = Partial(data)]
              /\ Abort(p, E("copy", at, idx[p], FALSE))
              /\ UNCHANGED writer
           \/ /\ UNCHANGED bin
              /\ Abort(p, E("copy", at, idx[p], FALSE))
              /\ UNCHANGED writer
    /\ UNCHANGED <<pkg, quota, load, idx, installs, running, exits, snap>>
    /\ UNCHANGED <<srcDir, checkout, buildFile, target>>

(* fs::copy(src_path, dst_path)?: 219. The destination is opened through   *)
(* symbolic links (`what` of the event is the entry actually opened); a     *)
(* failing copy leaves it untouched or cut short. A destination outside     *)
(* root/bin is written where its directory exists.                          *)
ArtCopy(p) ==
    /\ pc[p] = "write"
    /\ Cur(p).tag = "Bin"
    /\ LET dst == DstName(Cur(p))
           at == IF dst \in Names THEN Resolve(bin, dst) ELSE dst
           src == target[Me(p)][Cur(p).name]
           data == <<Me(p), Cur(p).name, src>>
       IN  \/ /\ src # "none" /\ at \in Names
              /\ bin' = [bin EXCEPT ![at] = File(data)]
              /\ UNCHANGED buildFile
              /\ Step(p, E("copy", at, idx[p], TRUE), "art")
              /\ writer' = [writer EXCEPT ![dst] = p]
           \/ /\ src # "none" /\ at \in Names
              /\ bin' = [bin EXCEPT ![at] = Partial(data)]
              /\ UNCHANGED buildFile
              /\ Abort(p, E("copy", at, idx[p], FALSE))
              /\ UNCHANGED writer
           \/ /\ src # "none" /\ dst \notin Names /\ srcDir[Reached(dst)]
              /\ buildFile' = [buildFile EXCEPT ![Reached(dst)] = << data >>]
              /\ Step(p, E("copy", at, idx[p], TRUE), "art")
              /\ UNCHANGED <<bin, writer>>
           \/ /\ UNCHANGED <<bin, buildFile>>
              /\ Abort(p, E("copy", at, idx[p], FALSE))
              /\ UNCHANGED writer
    /\ UNCHANGED <<pkg, quota, load, idx, installs, running, exits, snap>>
    /\ UNCHANGED <<srcDir, checkout, target>>

(* unix::fs::symlink(src_name, dst_path)?: 229. The link text is stored as *)
(* given; the call fails on an existing entry and never looks at the target *)
(* mutant: the link is made only to an existing entry *)
SymlinkOkValidated(p) ==
    /\ bin[DstName(Cur(p))] = Absent
    /\ bin[SrcName(Cur(p))] # Absent
    /\ bin' = [bin EXCEPT ![DstName(Cur(p))] = Link(SrcName(Cur(p)))]
    /\ Step(p, E("symlink", DstName(Cur(p)), idx[p], TRUE), "art")
    /\ writer' = [writer EXCEPT ![DstName(Cur(p))] = p]

(* mutant: on an existing entry the call reports success and leaves it *)
SymlinkOkExisting(p) ==
    /\ bin' = [bin EXCEPT ![DstName(Cur(p))] =
                   IF @ = Absent THEN Link(SrcName(Cur(p))) ELSE @]
    /\ Step(p, E("symlink", DstName(Cur(p)), idx[p], TRUE), "art")
    /\ writer' = [writer EXCEPT ![DstName(Cur(p))] = p]

SymlinkOk(p) ==
    /\ bin[DstName(Cur(p))] = Absent
    /\ bin' = [bin EXCEPT ![DstName(Cur(p))] = Link(SrcName(Cur(p)))]
    /\ Step(p, E("symlink", DstName(Cur(p)), idx[p], TRUE), "art")
    /\ writer' = [writer EXCEPT ![DstName(Cur(p))] = p]

(* mutant: a failed link uninstalls what the install had put in root/bin *)
SymlinkErrRollback(p) ==
    /\ bin' = [n \in Names |-> Absent]
    /\ Abort(p, E("symlink", DstName(Cur(p)), idx[p], FALSE))
    /\ UNCHANGED writer

SymlinkErr(p) ==
    /\ UNCHANGED bin
    /\ Abort(p, E("symlink", DstName(Cur(p)), idx[p], FALSE))
    /\ UNCHANGED writer

ArtSymlink(p) ==
    /\ pc[p] = "write"
    /\ Cur(p).tag = "Sym"
    /\ (SymlinkOk(p) \/ SymlinkErr(p))
    /\ UNCHANGED <<pkg, quota, load, idx, installs, running, exits, snap>>
    /\ UNCHANGED <<srcDir, checkout, buildFile, target>>

(* Ok(()): 234 *)
Finish(p) ==
    /\ pc[p] = "art"
    /\ idx[p] = Len(Artifacts(p))
    /\ trace' = Upd(trace, p, Append(trace[p], E("return", "ok", 0, TRUE)))
    /\ res' = Upd(res, p, "ok")
    /\ pc' = Upd(pc, p, "idle")
    /\ UNCHANGED <<pkg, quota, load, writer, idx, installs, running, exits, snap>>
    /\ UNCHANGED fsVars

Next ==
    \E p \in Procs :
        \/ Begin(p)
        \/ CheckDir(p)
        \/ MkDir(p)
        \/ SpawnFetch(p)
        \/ WaitFetch(p)
        \/ SpawnClone(p)
        \/ WaitClone(p)
        \/ OpenBuild(p)
        \/ WriteBuild(p)
        \/ SpawnZig(p)
        \/ WaitZig(p)
        \/ SpawnCargo(p)
        \/ WaitCargo(p)
        \/ ArtLog(p)
        \/ ArtRemove(p)
        \/ ArtCopy(p)
        \/ ArtSymlink(p)
        \/ Finish(p)

Spec == Init /\ [][Next]_vars

(* a caller that installs the same package again and again *)
RerunLists == { <<>>, <<Bin("a", None)>>, <<Sym("b", "a")>> }

InitRerun ==
    /\ quota = [p \in Procs |-> MaxInstalls]
    /\ \E arts \in RerunLists :
           pkg = [p \in Procs |-> IF p = 1 THEN Package("p", arts, <<>>) ELSE NoPackage]
    /\ pc = [p \in Procs |-> IF p = 1 THEN "idle" ELSE "off"]
    /\ InitFs
    /\ ~srcDir["q"]
    /\ bin = [n \in Names |-> Absent]
    /\ InitProcs

SpecRerun == InitRerun /\ [][Next]_vars

(* ======================= properties of the pipeline ==================== *)
Stage(e) == IF e.op \in {"spawn", "wait"} THEN e.op \o ":" \o e.what ELSE e.op

IsAction(e) == e.op # "exists"

(* the actions of the current install, in the order they happened *)
Stages(p) ==
    LET acts == SelectSeq(trace[p], IsAction)
    IN  [j \in 1..Len(acts) |-> Stage(acts[j])]

RECURSIVE ArtStages(_)
ArtStages(arts) ==
    IF Len(arts) = 0 THEN <<>>
    ELSE <<"log", "remove", IF Head(arts).tag = "Bin" THEN "copy" ELSE "symlink">>
         \o ArtStages(Tail(arts))

BuildStages ==
    <<"open", "write", "spawn:zig", "wait:zig", "spawn:cargo", "wait:cargo">>

ExpectedClone(p) ==
    <<"mkdir", "spawn:clone", "wait:clone">> \o BuildStages
        \o ArtStages(Artifacts(p)) \o <<"return">>

ExpectedFetch(p) ==
    <<"spawn:fetch", "wait:fetch">> \o BuildStages
        \o ArtStages(Artifacts(p)) \o <<"return">>

IsPrefix(s, t) == Len(s) <= Len(t) /\ SubSeq(t, 1, Len(s)) = s

SawNoDir(p) == Len(trace[p]) >= 1 /\ trace[p][1].op = "exists" /\ ~trace[p][1].ok
SawDir(p) == Len(trace[p]) >= 1 /\ trace[p][1].op = "exists" /\ trace[p][1].ok

(* the operations whose io::Error leaves install through `?` *)
FatalOps == {"mkdir", "spawn", "wait", "open", "write", "copy", "symlink"}

(* no fatal operation of the current install failed *)
NoFailure(p) ==
    \A j \in 1..Len(trace[p]) : ~(trace[p][j].op \in FatalOps /\ ~trace[p][j].ok)

Returned(p) == pc[p] = "idle" /\ res[p] # "none"

WaitPcs == {"wait_fetch", "wait_clone", "wait_zig", "wait_cargo"}

ChildAt(at) == IF at \in {"wait_fetch", "wait_clone"} THEN "gix"
               ELSE IF at = "wait_zig" THEN "zig" ELSE "cargo"

(* C1: an install that finds no source directory and in which no step      *)
(* fails performs mkdir, clone, build.zig generation, zig, cargo and the   *)
(* artifact installs once each in this order, and a child process runs     *)
(* only between its spawn and its wait, so no two stages overlap.          *)
C1_PipelineOrder ==
    \A p \in Procs :
        /\ (SawNoDir(p) /\ NoFailure(p)) =>
              /\ IsPrefix(Stages(p), ExpectedClone(p))
              /\ (res[p] = "ok" => Stages(p) = ExpectedClone(p))
        /\ running[p] = (IF pc[p] \in WaitPcs THEN {ChildAt(pc[p])} ELSE {})

C1_Witness ==
    /\ res[1] = "ok" /\ SawNoDir(1)
    /\ Len(Artifacts(1)) = MaxArtifacts
    /\ Stages(1) = ExpectedClone(1)

ArtOps == {"log", "remove", "copy", "symlink"}

FailedAt(p, j, ops) == trace[p][j].op \in ops /\ ~trace[p][j].ok

(* C2: a failed copy or symlink of artifact k is the last step of install:  *)
(* install has returned the error and nothing of an artifact after k was    *)
(* logged, removed, copied or linked.                                       *)
C2_FailFast ==
    \A p \in Procs : \A j \in 1..Len(trace[p]) :
        FailedAt(p, j, {"copy", "symlink"}) =>
            /\ j = Len(trace[p])
            /\ Returned(p) /\ res[p] = "err"
            /\ \A m \in 1..Len(trace[p]) :
                   trace[p][m].op \in ArtOps => trace[p][m].i <= trace[p][j].i

C2_Witness ==
    /\ Len(trace[1]) > 0
    /\ FailedAt(1, Len(trace[1]), {"copy", "symlink"})
    /\ trace[1][Len(trace[1])].i < Len(Artifacts(1))
    /\ Returned(1)

ExpectedStages(p) == IF SawDir(p) THEN ExpectedFetch(p) ELSE ExpectedClone(p)

(* C3: the exit status of gix, zig and cargo decides nothing: an install    *)
(* in which no spawn, wait or file operation fails runs every stage and     *)
(* returns Ok whatever the children exited with.                            *)
C3_ExitStatusIgnored ==
    \A p \in Procs :
        /\ (NoFailure(p) /\ Len(trace[p]) >= 1) => IsPrefix(Stages(p), ExpectedStages(p))
        /\ (Returned(p) /\ NoFailure(p)) =>
              /\ res[p] = "ok"
              /\ Stages(p) = ExpectedStages(p)

C3_Witness ==
    /\ Returned(1) /\ res[1] = "ok"
    /\ \A t \in Tools : exits[1][t] = "nonzero"
    /\ \E n \in Names : bin[n] = File(<<"p", "a", "stale">>)

EarlyOps == {"mkdir", "spawn", "wait", "open", "write"}

(* C4: a failed create_dir, open or write of build.zig, spawn or wait is    *)
(* the last step of install: the error is returned and nothing follows it.  *)
C4_EarlyAbort ==
    \A p \in Procs : \A j \in 1..Len(trace[p]) :
        FailedAt(p, j, EarlyOps) =>
            /\ j = Len(trace[p])
            /\ Returned(p) /\ res[p] = "err"
            /\ running[p] = {}
            /\ \A m \in 1..Len(trace[p]) : trace[p][m].op \notin ArtOps

C4_Witness ==
    /\ Returned(1) /\ res[1] = "err"
    /\ Len(trace[1]) = 2
    /\ FailedAt(1, 2, {"mkdir"})
    /\ Len(Artifacts(1)) > 0

(* an install that went down the fetch path and never made the directory *)
FetchOnly(p) ==
    /\ pc[p] \notin {"mkdir", "spawn_clone", "wait_clone"}
    /\ \A j \in 1..Len(trace[p]) :
           /\ trace[p][j].op # "mkdir"
           /\ ~(trace[p][j].op = "spawn" /\ trace[p][j].what = "clone")
           /\ (trace[p][j].op = "exists" => trace[p][j].ok)
    /\ (Len(trace[p]) >= 2 => (trace[p][2].op = "spawn" /\ trace[p][2].what = "fetch"))

(* C5: once an install finds root/src/<name> existing, that install and     *)
(* every later install of the package takes the fetch path; none clones     *)
(* or creates the directory.                                                *)
C5_IdempotentSync ==
    \A p \in Procs :
        []((pc[p] = "check" /\ srcDir[Me(p)]) => []FetchOnly(p))

C5_Witness ==
    /\ installs[1] = MaxInstalls
    /\ Returned(1) /\ res[1] = "ok"
    /\ Len(Artifacts(1)) > 0
    /\ Stages(1) = ExpectedFetch(1)

(* -------------------------- what is left behind ------------------------ *)
NewData(p, a) == <<Me(p), a.name, target[Me(p)][a.name]>>

(* the entry a successful step of artifact a leaves *)
NewEntry(p, a) == IF a.tag = "Bin" THEN File(NewData(p, a)) ELSE Link(a.points_to)

WroteOk(p, j) == trace[p][j].op \in {"copy", "symlink"} /\ trace[p][j].ok

(* the artifact written by event j is still where it was written *)
Present(p, j) == bin[trace[p][j].what] = NewEntry(p, Artifacts(p)[trace[p][j].i])

(* a later step of the same install removed or wrote the entry of event j *)
Overwritten(p, j) ==
    \E m \in (j + 1)..Len(trace[p]) :
        /\ trace[p][m].what = trace[p][j].what
        /\ \/ trace[p][m].op = "remove" /\ trace[p][m].ok
           \/ trace[p][m].op = "copy"

DirKept(p) ==
    (\E j \in 1..Len(trace[p]) : trace[p][j].op = "mkdir" /\ trace[p][j].ok)
        => srcDir[Me(p)]

BuildKept(p) ==
    \A j \in 1..Len(trace[p]) :
        trace[p][j].op = "write" =>
            buildFile[Me(p)] = SubSeq(BuildZig(pkg[p].beta_artifacts), 1, trace[p][j].i)

(* C6 as stated: after an error return the created directory, the written   *)
(* part of build.zig and every artifact installed before the failing one    *)
(* are still there.                                                         *)
C6_Original ==
    \A p \in Procs :
        (Returned(p) /\ res[p] = "err") =>
            /\ DirKept(p)
            /\ BuildKept(p)
            /\ \A j \in 1..Len(trace[p]) : WroteOk(p, j) => Present(p, j)

(* C6 amended: as above, but an artifact installed before the failing one   *)
(* is still there unless a later step of the same install removed or wrote  *)
(* the very entry it was written to.                                        *)
C6_NoRollback ==
    \A p \in Procs :
        (Returned(p) /\ res[p] = "err") =>
            /\ DirKept(p)
            /\ BuildKept(p)
            /\ \A j \in 1..Len(trace[p]) :
                   WroteOk(p, j) => (Present(p, j) \/ Overwritten(p, j))

C6_Witness ==
    /\ Returned(1) /\ res[1] = "err"
    /\ Len(trace[1]) > 3
    /\ FailedAt(1, Len(trace[1]), {"copy", "symlink"})
    /\ \E j \in 1..Len(trace[1]) : WroteOk(1, j) /\ Present(1, j) /\ ~Overwritten(1, j)
    /\ DirKept(1) /\ trace[1][2].op = "mkdir"

InStep(p) == idx[p] >= 1 /\ pc[p] \in {"remove", "write", "art", "idle"}

(* C7 as stated: while and after an artifact is installed every entry of    *)
(* root/bin is the one from before the step or the complete new one.        *)
C7_Original ==
    \A p \in Procs :
        InStep(p) =>
            \A n \in Names : bin[n] = snap[p][n] \/ bin[n] = NewEntry(p, Cur(p))

(* C7 amended: the destination holds the entry from before the step, no     *)
(* entry, a partially copied file or the complete new entry; any other      *)
(* entry is unchanged, but for the file that a symbolic link found at the   *)
(* destination leads to, which receives the copy.                           *)
C7_RemoveThenWrite ==
    \A p \in Procs :
        InStep(p) =>
            LET a == Cur(p)
                dst == DstName(a)
                copied == {File(NewData(p, a)), Partial(NewData(p, a))}
            IN  \A n \in Names :
                    \/ bin[n] = snap[p][n]
                    \/ n = dst /\ bin[n] = Absent
                    \/ n = dst /\ bin[n] = NewEntry(p, a)
                    \/ n = dst /\ a.tag = "Bin" /\ bin[n] \in copied
                    \/ /\ n # dst /\ a.tag = "Bin" /\ bin[n] \in copied
                       /\ snap[p][dst].kind = "sym" /\ bin[dst] = snap[p][dst]

C7_Witness ==
    /\ pc[1] = "write" /\ idx[1] >= 1
    /\ snap[1][DstName(Cur(1))] = OldFile
    /\ bin[DstName(Cur(1))] = Absent

(* the step of the current artifact has just succeeded *)
StepDone(p, tag) ==
    /\ idx[p] >= 1 /\ pc[p] \in {"art", "idle"}
    /\ Cur(p).tag = tag
    /\ Len(trace[p]) >= 1
    /\ \E j \in {Len(trace[p]) - 1, Len(trace[p])} :
           j >= 1 /\ WroteOk(p, j) /\ trace[p][j].i = idx[p]

HoldsCopy(p, a) ==
    LET at == Resolve(bin, DstName(a))
    IN  at # "ELOOP" /\ bin[at] = File(NewData(p, a))

Created(p, n) == snap[p][n] = Absent /\ bin[n] # Absent

(* C8 as stated: after a successful Bin step the destination holds a copy   *)
(* of the build output, the build output is still there, and with a         *)
(* rename_to no entry named `name` has been created.                        *)
C8_Original ==
    \A p \in Procs :
        StepDone(p, "Bin") =>
            /\ HoldsCopy(p, Cur(p))
            /\ target[Me(p)][Cur(p).name] # "none"
            /\ (Cur(p).rename_to # None => ~Created(p, Cur(p).name))

(* the destination is a symbolic link the remove left in place and the     *)
(* copy went through it to the entry n                                      *)
WroteThrough(p, a, n) ==
    /\ snap[p][DstName(a)].kind = "sym"
    /\ bin[DstName(a)] = snap[p][DstName(a)]
    /\ Resolve(bin, DstName(a)) = n

(* C8 amended: as above, but an entry named `name` is not created only      *)
(* when rename_to differs from name and the copy did not go through a link  *)
(* at the destination that leads to `name`.                                 *)
C8_BinInstalled ==
    \A p \in Procs :
        StepDone(p, "Bin") =>
            /\ HoldsCopy(p, Cur(p))
            /\ target[Me(p)][Cur(p).name] # "none"
            /\ (/\ Cur(p).rename_to # None
                /\ Cur(p).rename_to[1] # Cur(p).name
                /\ ~WroteThrough(p, Cur(p), Cur(p).name))
                   => ~Created(p, Cur(p).name)

C8_Witness ==
    /\ StepDone(1, "Bin")
    /\ Cur(1) = Bin("a", Some("b"))
    /\ bin["b"] = File(<<"p", "a", "fresh">>)
    /\ bin["a"] = Absent

(* C9: after a successful Sym step root/bin/<name> is a link storing        *)
(* points_to as given, and the step can succeed whenever the destination    *)
(* is free, whether or not an entry named points_to exists.                 *)
C9_SymInstalled ==
    \A p \in Procs :
        /\ StepDone(p, "Sym") => bin[Cur(p).name] = Link(Cur(p).points_to)
        /\ (pc[p] = "write" /\ Cur(p).tag = "Sym" /\ bin[Cur(p).name] = Absent)
               => ENABLED SymlinkOk(p)

C9_Witness ==
    /\ StepDone(1, "Sym")
    /\ Cur(1) = Sym("a", "b")
    /\ bin["a"] = Link("b")
    /\ bin["b"] = Absent
    /\ Artifacts(1) = <<Sym("a", "b")>>

IsArtEvent(e) == e.op \in ArtOps

ArtEvents(p) == SelectSeq(trace[p], IsArtEvent)

(* C10: the artifact steps are log, remove, copy/symlink of artifact 1,     *)
(* then of artifact 2, ...: a prefix of the declared list, each artifact    *)
(* once, and a step starts only after the one before has succeeded.         *)
C10_DeclaredOrder ==
    \A p \in Procs :
        LET ev == ArtEvents(p)
            arts == Artifacts(p)
        IN  /\ Len(ev) <= 3 * Len(arts)
            /\ \A j \in 1..Len(ev) :
                   LET i == (j + 2) \div 3
                   IN  /\ ev[j].i = i
                       /\ ev[j].op = ArtStages(arts)[j]
                       /\ (ev[j].op = "log" => ev[j].what = LogKind(arts[i]))
                       /\ (ev[j].op \in {"copy", "symlink"} /\ j < Len(ev)) => ev[j].ok
            /\ (Len(ev) > 0 => idx[p] = ev[Len(ev)].i)
            /\ (Len(ev) = 0 => idx[p] = 0)

C10_Witness ==
    /\ Returned(1) /\ res[1] = "ok"
    /\ Len(Artifacts(1)) = MaxArtifacts
    /\ Len(ArtEvents(1)) = 3 * MaxArtifacts
    /\ Artifacts(1)[1] # Artifacts(1)[2]

(* C11: whatever remove_file returned, the copy or symlink of the same      *)
(* artifact is the next step, and the step ends as that copy or symlink     *)
(* ends: install goes on after a successful one and returns the error of a  *)
(* failed one; a remove never ends install.                                 *)
C11_RemoveBestEffort ==
    \A p \in Procs : \A j \in 1..Len(trace[p]) :
        trace[p][j].op = "remove" =>
            IF j = Len(trace[p])
            THEN pc[p] = "write" /\ res[p] = "none"
            ELSE /\ trace[p][j + 1].op \in {"copy", "symlink"}
                 /\ trace[p][j + 1].i = trace[p][j].i
                 /\ (j + 1 = Len(trace[p])) =>
                        IF trace[p][j + 1].ok
                        THEN pc[p] = "art" /\ res[p] = "none"
                        ELSE Returned(p) /\ res[p] = "err"

(* a remove that failed on an entry that was there, then a successful write *)
C11_Witness ==
    /\ Returned(1) /\ res[1] = "ok"
    /\ \E j \in 1..Len(trace[1]) :
           /\ trace[1][j].op = "remove" /\ ~trace[1][j].ok
           /\ trace[1][j + 1].op = "copy" /\ trace[1][j + 1].ok
           /\ bin[trace[1][j].what] = NewEntry(1, Artifacts(1)[trace[1][j].i])
    /\ \E n \in Names : snap[1][n] = OldFile /\ bin[n].kind = "file" /\ bin[n] # OldFile
    /\ Len(Artifacts(1)) = 1

(* ================= generation of build.zig over many manifests ========= *)
LibBin == <<"l", "i", "b", " ", "b", "i", "n", " ", "x">>

GenEntries ==
    { <<LibZ, <<"z.c">> >>, <<BinT, <<"t.c", "u.c">> >>, <<Other, <<"o.c">> >>,
      <<LibBin, <<"x.c">> >> }

GenBetaLists == SeqsUpTo(GenEntries, MaxBeta)

GenArtifacts == <<Bin("a", None), Sym("b", "a")>>

(* what an earlier run may have left at root/src/p/build.zig: nothing, a    *)
(* file cut short, a longer file                                            *)
OldBuilds ==
    { NoFile,
      SubSeq(BuildZig(DefaultBeta), 1, 9),
      BuildZig(DefaultBeta) \o << T("// tail") >> }

InitGen ==
    /\ quota = [p \in Procs |-> MaxInstalls]
    /\ \E beta \in GenBetaLists :
           pkg = [p \in Procs |-> IF p = 1 THEN Package("p", GenArtifacts, beta) ELSE NoPackage]
    /\ pc = [p \in Procs |-> IF p = 1 THEN "idle" ELSE "off"]
    /\ srcDir \in {[n \in PkgNames |-> FALSE], [n \in PkgNames |-> n = "p"]}
    /\ checkout = [n \in PkgNames |-> IF srcDir[n] THEN "valid" ELSE "none"]
    /\ buildFile \in [PkgNames -> OldBuilds]
    /\ \A n \in PkgNames : ~srcDir[n] => buildFile[n] = NoFile
    /\ target = [n \in PkgNames |-> [m \in Names |-> IF srcDir[n] THEN "stale" ELSE "none"]]
    /\ bin = [n \in Names |-> Absent]
    /\ InitProcs

SpecGen == InitGen /\ [][Next]_vars

(* the build.zig of this install has been written to its last line *)
Generated(p) ==
    \E j \in 1..Len(trace[p]) : trace[p][j].op = "write" /\ trace[p][j].ok

Last(line) == line[Len(line)]

IsLibHead(line) ==
    Len(line) >= 2 /\ line[1] = "    const lib" /\ Last(line) = " = b.addStaticLibrary(.{"

IsBinHead(line) ==
    Len(line) >= 2 /\ line[1] = "    const " /\ Last(line) = " = b.addExecutable(.{"

IsInstallLine(line) ==
    Len(line) >= 2 /\ line[1] \in {"    b.installArtifact(", "    b.installArtifact(lib"}

(* the targets a configuration text defines, in the order of the text *)
RECURSIVE TargetsIn(_)
TargetsIn(lines) ==
    IF Len(lines) = 0 THEN <<>>
    ELSE LET l == Head(lines)
             name == SubSeq(l, 2, Len(l) - 1)
         IN  (IF IsLibHead(l) THEN << <<"lib", name>> >>
              ELSE IF IsBinHead(l) THEN << <<"bin", name>> >>
              ELSE <<>>) \o TargetsIn(Tail(lines))

HasLabelPrefix(label, c1, c2, c3) ==
    Len(label) >= 4 /\ label[1] = c1 /\ label[2] = c2 /\ label[3] = c3 /\ label[4] = " "

Remainder(label) == [i \in 1..(Len(label) - 4) |-> label[i + 4]]

(* the targets the manifest asks for, in the order of beta_artifacts *)
RECURSIVE WantTargets(_)
WantTargets(beta) ==
    IF Len(beta) = 0 THEN <<>>
    ELSE LET label == Head(beta)[1]
         IN  (IF HasLabelPrefix(label, "l", "i", "b") THEN << <<"lib", Remainder(label)>> >>
              ELSE IF HasLabelPrefix(label, "b", "i", "n") THEN << <<"bin", Remainder(label)>> >>
              ELSE <<>>) \o WantTargets(Tail(beta))

CountLines(lines, Test(_)) == Len(SelectSeq(lines, Test))

(* C12: a completely written build.zig is the preamble, then one target     *)
(* definition for each beta_artifacts entry labelled "lib <name>" (a static  *)
(* library) or "bin <name>" (an executable), in input order, nothing for    *)
(* any other entry and never two targets for one entry, then the closing    *)
(* brace.                                                                   *)
C12_OneTargetPerEntry ==
    \A p \in Procs :
        Generated(p) =>
            LET text == buildFile[Me(p)]
                beta == pkg[p].beta_artifacts
                body == SubSeq(text, Len(Preamble) + 1, Len(text) - 1)
            IN  /\ Len(text) >= Len(Preamble) + 1
                /\ SubSeq(text, 1, Len(Preamble)) = Preamble
                /\ Last(text) = T("}")
                /\ TargetsIn(text) = WantTargets(beta)
                /\ Len(WantTargets(beta)) <= Len(beta)
                /\ CountLines(body, IsInstallLine) = Len(WantTargets(beta))
                /\ (WantTargets(beta) = <<>> => body = <<>>)

C12_Witness ==
    /\ Generated(1)
    /\ pkg[1].beta_artifacts = << <<Other, <<"o.c">> >>, <<LibBin, <<"x.c">> >> >>
    /\ TargetsIn(buildFile["p"]) = << <<"lib", <<"b", "i", "n", " ", "x">> >> >>

(* C13: once an install has written build.zig to its last line, the file    *)
(* is the text generated from beta_artifacts and nothing else, whatever     *)
(* was in the file before; so every install of the package leaves the       *)
(* same file.                                                               *)
C13_GenerationIdempotent ==
    \A p \in Procs :
        Generated(p) => buildFile[Me(p)] = BuildZig(pkg[p].beta_artifacts)

C13_Witness ==
    /\ installs[1] = MaxInstalls
    /\ Generated(1)
    /\ Returned(1)
    /\ buildFile["p"] = BuildZig(pkg[1].beta_artifacts)
    /\ Len(pkg[1].beta_artifacts) = MaxBeta

(* ============ two callers installing different packages at once ======== *)
ConcLists == { <<a>> : a \in ArtifactSet }

(* package "p" has been installed before, package "q" never *)
InitConc ==
    /\ quota = [p \in Procs |-> 1]
    /\ \E l1 \in ConcLists, l2 \in ConcLists :
           pkg = [p \in Procs |-> IF p = 1 THEN Package("p", l1, <<>>) ELSE Package("q", l2, <<>>)]
    /\ pc = [p \in Procs |-> "idle"]
    /\ srcDir = [n \in PkgNames |-> n = "p"]
    /\ checkout = [n \in PkgNames |-> IF n = "p" THEN "valid" ELSE "none"]
    /\ buildFile = [n \in PkgNames |-> NoFile]
    /\ target = [n \in PkgNames |-> [m \in Names |-> IF n = "p" THEN "stale" ELSE "none"]]
    /\ bin = [n \in Names |-> Absent]
    /\ InitProcs

SpecConc == InitConc /\ [][Next]_vars
(* install p has completed a copy or symlink for destination n *)
InstalledAt(p, n) ==
    \E j \in 1..Len(trace[p]) :
        WroteOk(p, j) /\ DstName(Artifacts(p)[trace[p][j].i]) = n

(* the artifact of the last such step of install p *)
LastAt(p, n) ==
    LET js == { j \in 1..Len(trace[p]) :
                   WroteOk(p, j) /\ DstName(Artifacts(p)[trace[p][j].i]) = n }
        j == CHOOSE m \in js : \A k \in js : k <= m
    IN  Artifacts(p)[trace[p][j].i]

BothInstalled(n) ==
    /\ \A p \in Procs : Returned(p) /\ InstalledAt(p, n)
    /\ Me(1) # Me(2)

Peer(p) == CHOOSE q \in Procs : q # p

InitFresh == InitRerun /\ ~srcDir["p"]

SpecFresh == InitFresh /\ [][Next]_vars

(* every declared artifact is in root/bin as its step leaves it *)
AllInstalled(p) ==
    \A i \in 1..Len(Artifacts(p)) :
        LET a == Artifacts(p)[i]
        IN  IF a.tag = "Bin" THEN HoldsCopy(p, a) ELSE bin[DstName(a)] = NewEntry(p, a)

(* C15 as stated: a later install of the same package in which no I/O or    *)
(* spawn error occurs ends with a valid source checkout, a completely       *)
(* written build.zig and every declared artifact installed, whatever        *)
(* happened to the installs before it.                                      *)
C15_Recovery ==
    \A p \in Procs :
        (installs[p] >= 2 /\ Returned(p) /\ NoFailure(p)) =>
            /\ checkout[Me(p)] = "valid"
            /\ buildFile[Me(p)] = BuildZig(pkg[p].beta_artifacts)
            /\ AllInstalled(p)

(* ======================= Package::from_path ============================ *)
(* A manifest path is a sequence of characters; a document is the sequence  *)
(* of the keys of its top-level mapping, "%" standing for text that is not  *)
(* well-formed. The values are the same in every document.                  *)
Required == {"source", "dependencies", "artifacts"}
Defaulted == {"features", "beta_artifacts"}

Keys(content) == { content[i] : i \in DOMAIN content }

LastIndexOf(s, c) ==
    LET at == { i \in DOMAIN s : s[i] = c }
    IN  IF at = {} THEN 0 ELSE CHOOSE i \in at : \A j \in at : j <= i

FileName(path) == SubSeq(path, LastIndexOf(path, "/") + 1, Len(path))

RECURSIVE Str(_)
Str(chars) == IF Len(chars) = 0 THEN "" ELSE Head(chars) \o Str(Tail(chars))

(* Utf8Path::file_stem: the file name without its last extension; a name    *)
(* that only starts with a dot has no extension                             *)
FileStem(path) ==
    LET file == FileName(path)
        dot == LastIndexOf(file, ".")
    IN  IF dot <= 1 THEN file ELSE SubSeq(file, 1, dot - 1)

(* serde_yaml::from_str::<Serialized>: lines 17-26, 34; a key that is not  *)
(* a field of Serialized is skipped                                         *)
FromStr(content) ==
    IF "%" \in Keys(content) \/ ~(Required \subseteq Keys(content))
    THEN [ok |-> FALSE, artifacts |-> <<>>, beta_artifacts |-> <<>>]
    ELSE [ok |-> TRUE,
          artifacts |-> GenArtifacts,
          beta_artifacts |-> IF "beta_artifacts" \in Keys(content)
                             THEN << <<LibZ, <<"z.c">> >> >> ELSE <<>>]

(* Error::deserialize_spec(name, content, error): the error holds the name  *)
(* and the text; path records the argument of the call                      *)
DeserializeSpec(name, content, path) ==
    [status |-> "parse_error", name |-> name, content |-> content, path |-> path]

ManifestPaths ==
    { <<"s", "/", "p", ".", "y">>, <<"q", ".", "y">>, <<"s", ".", "d", "/", "q">> }

ManifestTexts ==
    { <<"source", "dependencies", "artifacts">>,
      <<"source", "dependencies", "features", "artifacts", "beta_artifacts">>,
      <<"source", "dependencies", "artifacts", "license">>,
      <<"source", "dependencies">>,
      <<"source", "%">> }

(* the files the caller may name; a file may be missing *)
Manifests ==
    { [path |-> f, there |-> t, content |-> c] :
          f \in ManifestPaths, t \in BOOLEAN, c \in ManifestTexts }

(* mutant: loading prepares the source directory of the package *)
FromPathScaffold(p) ==
    /\ pc[p] = "unloaded"
    /\ \E m \in Manifests :
         LET name == Str(FileStem(m.path))
             doc == FromStr(m.content)
         IN  \/ /\ ~m.there
                /\ load' = Upd(load, p, [status |-> "panic", name |-> name,
                                         content |-> <<>>, path |-> m.path])
                /\ pc' = Upd(pc, p, "off")
                /\ UNCHANGED <<pkg, srcDir>>
             \/ /\ m.there /\ ~doc.ok
                /\ load' = Upd(load, p, DeserializeSpec(name, m.content, m.path))
                /\ pc' = Upd(pc, p, "off")
                /\ UNCHANGED <<pkg, srcDir>>
             \/ /\ m.there /\ doc.ok
                /\ load' = Upd(load, p, [status |-> "ok", name |-> name,
                                         content |-> m.content, path |-> m.path])
                /\ pkg' = Upd(pkg, p, Package(name, doc.artifacts, doc.beta_artifacts))
                /\ pc' = Upd(pc, p, "idle")
                /\ srcDir' = [srcDir EXCEPT ![name] = TRUE]
    /\ UNCHANGED <<quota, writer, idx, res, installs, running, exits, trace, snap>>
    /\ UNCHANGED <<checkout, buildFile, target, bin>>

(* from_path: 29-38. file_stem().unwrap() and read_to_string().unwrap()     *)
(* panic (the paths here all have a file name, so only the read can); a     *)
(* document that does not deserialize gives Err(deserialize_spec(..)), any  *)
(* other gives the Package.                                                 *)
FromPath(p) ==
    /\ pc[p] = "unloaded"
    /\ \E m \in Manifests :
         LET name == Str(FileStem(m.path))
             doc == FromStr(m.content)
         IN  \/ /\ ~m.there
                /\ load' = Upd(load, p, [status |-> "panic", name |-> name,
                                         content |-> <<>>, path |-> m.path])
                /\ pc' = Upd(pc, p, "off")
                /\ UNCHANGED pkg
             \/ /\ m.there /\ ~doc.ok
                /\ load' = Upd(load, p, DeserializeSpec(name, m.content, m.path))
                /\ pc' = Upd(pc, p, "off")
                /\ UNCHANGED pkg
             \/ /\ m.there /\ doc.ok
                /\ load' = Upd(load, p, [status |-> "ok", name |-> name,
                                         content |-> m.content, path |-> m.path])
                /\ pkg' = Upd(pkg, p, Package(name, doc.artifacts, doc.beta_artifacts))
                /\ pc' = Upd(pc, p, "idle")
    /\ UNCHANGED <<quota, writer, idx, res, installs, running, exits, trace, snap>>
    /\ UNCHANGED fsVars

InitLoad ==
    /\ quota = [p \in Procs |-> 1]
    /\ pkg = [p \in Procs |-> NoPackage]
    /\ pc = [p \in Procs |-> IF p = 1 THEN "unloaded" ELSE "off"]
    /\ InitFs
    /\ bin = [n \in Names |-> Absent]
    /\ InitProcs

NextLoad == (\E p \in Procs : FromPath(p)) \/ Next

SpecLoad == InitLoad /\ [][NextLoad]_vars

(* name is what is left of the path's file name without its last extension *)
IsStemOf(name, path) ==
    \E k \in 1..Len(path) :
        LET file == SubSeq(path, k, Len(path))
        IN  /\ (k = 1 \/ path[k - 1] = "/")
            /\ \A i \in DOMAIN file : file[i] # "/"
            /\ \E n \in 1..Len(file) :
                   /\ Str(SubSeq(file, 1, n)) = name
                   /\ \/ n = Len(file) /\ \A i \in 2..Len(file) : file[i] # "."
                      \/ /\ n < Len(file) /\ file[n + 1] = "."
                         /\ \A i \in (n + 2)..Len(file) : file[i] # "."

Loaded(p) == load[p].status = "none" /\ load'[p].status # "none"

OnDisk(path, content) ==
    \E m \in Manifests : m.there /\ m.path = path /\ m.content = content

Deserializable(content) ==
    /\ \A i \in DOMAIN content : content[i] # "%"
    /\ \A k \in Required : \E i \in DOMAIN content : content[i] = k

(* C16: a call of from_path leaves every filesystem entry as it was,        *)
(* whether it returns the package or fails; it returns the parse error      *)
(* exactly when the document does not deserialize, and the error carries    *)
(* the file stem of the path as the package name and the text that was      *)
(* read.                                                                    *)
C16_LoadNoSideEffect ==
    [][\A p \in Procs :
          Loaded(p) =>
              /\ fsVars' = fsVars
              /\ load'[p].status = "parse_error" =>
                     /\ IsStemOf(load'[p].name, load'[p].path)
                     /\ OnDisk(load'[p].path, load'[p].content)
                     /\ ~Deserializable(load'[p].content)
              /\ load'[p].status = "ok" =>
                     /\ Deserializable(load'[p].content)
                     /\ pkg'[p].name = load'[p].name
                     /\ IsStemOf(load'[p].name, load'[p].path)]_vars

C16_Witness ==
    /\ load[1].status = "parse_error"
    /\ load[1].name = "q"
    /\ load[1].path = <<"s", ".", "d", "/", "q">>
    /\ load[1].content = <<"source", "%">>
    /\ pc[1] = "off"

(* ====== two packages, one of them with a destination outside root/bin === *)
PathLists == { <<Bin("a", Some(UpQ))>>, <<Bin("a", None)>> }

InitPath ==
    /\ quota = [p \in Procs |-> 1]
    /\ \E l1 \in PathLists :
           pkg = [p \in Procs |-> IF p = 1 THEN Package("p", l1, <<>>)
                                  ELSE Package("q", <<Sym("b", "a")>>, <<>>)]
    /\ pc = [p \in Procs |-> "idle"]
    /\ srcDir = [n \in PkgNames |-> n = "p"]
    /\ checkout = [n \in PkgNames |-> IF n = "p" THEN "valid" ELSE "none"]
    /\ buildFile = [n \in PkgNames |-> NoFile]
    /\ target = [n \in PkgNames |-> [m \in Names |-> IF n = "p" THEN "stale" ELSE "none"]]
    /\ bin = [n \in Names |-> Absent]
    /\ InitProcs

SpecPath == InitPath /\ [][Next]_vars

(* a step changes something under root/src/<n> *)
TouchesSrc(n) ==
    \/ srcDir'[n] # srcDir[n]
    \/ checkout'[n] # checkout[n]
    \/ buildFile'[n] # buildFile[n]
    \/ target'[n] # target[n]

(* C17 as stated: whatever changes under root/src/<n> is changed by a step  *)
(* of an install of package n; an install of another package changes        *)
(* nothing there, so two installs of different packages can both write      *)
(* only entries of root/bin.                                                *)
C17_OwnSubtree ==
    [][\A n \in PkgNames :
          TouchesSrc(n) => \E p \in Procs : Me(p) = n /\ trace'[p] # trace[p]]_vars

(* ----------------------------- console output -------------------------- *)
IsLog(e) == e.op = "log"
IsWrite(e) == e.op \in {"copy", "symlink"}
IsOkWrite(e) == e.op \in {"copy", "symlink"} /\ e.ok

LogLines(p) == SelectSeq(trace[p], IsLog)

KindsRight(p) ==
    \A k \in 1..Len(LogLines(p)) :
        /\ LogLines(p)[k].i = k
        /\ LogLines(p)[k].what = (IF Artifacts(p)[k].tag = "Bin" THEN "bin" ELSE "sym")

(* C18 as stated: when an install has returned, successfully or not, it has *)
(* printed as many artifact lines as artifacts were copied or linked        *)
(* successfully, each with the kind of its artifact.                        *)
C18_Original ==
    \A p \in Procs :
        Returned(p) =>
            /\ Len(LogLines(p)) = Len(SelectSeq(trace[p], IsOkWrite))
            /\ KindsRight(p)

(* C18 amended: the line of an artifact is printed before its remove and    *)
(* its copy or symlink, so the lines printed are one for each artifact      *)
(* whose copy or symlink has been tried, successfully or not, and one for   *)
(* the artifact whose step is under way; the k-th line is for the k-th      *)
(* declared artifact and carries its kind. A run that fails in the artifact *)
(* stage has printed one line more than it installed artifacts.             *)
C18_LinePerAttempt ==
    \A p \in Procs :
        /\ Len(LogLines(p)) =
               Len(SelectSeq(trace[p], IsWrite))
                   + (IF pc[p] \in {"remove", "write"} THEN 1 ELSE 0)
        /\ KindsRight(p)
        /\ Returned(p) =>
               Len(LogLines(p)) =
                   Len(SelectSeq(trace[p], IsOkWrite))
                       + (IF FailedAt(p, Len(trace[p]), {"copy", "symlink"}) THEN 1 ELSE 0)

C18_Witness ==
    /\ Returned(1) /\ res[1] = "err"
    /\ Len(LogLines(1)) = 2
    /\ Len(SelectSeq(trace[1], IsOkWrite)) = 1
    /\ LogLines(1)[1].what = "sym" /\ LogLines(1)[2].what = "bin"

(* ========== two callers installing the same package at once ============ *)
InitSame ==
    /\ quota = [p \in Procs |-> 1]
    /\ \E arts \in RerunLists :
           pkg = [p \in Procs |-> Package("p", arts, <<>>)]
    /\ pc = [p \in Procs |-> "idle"]
    /\ srcDir = [n \in PkgNames |-> FALSE]
    /\ checkout = [n \in PkgNames |-> "none"]
    /\ buildFile = [n \in PkgNames |-> NoFile]
    /\ target = [n \in PkgNames |-> [m \in Names |-> "none"]]
    /\ bin = [n \in Names |-> Absent]
    /\ InitProcs

SpecSame == InitSame /\ [][Next]_vars

HasEvent(p, op, what) ==
    \E j \in 1..Len(trace[p]) : trace[p][j].op = op /\ trace[p][j].what = what

(* the installs that have invoked clone, whether or not it could be spawned *)
Cloners == { p \in Procs : HasEvent(p, "spawn", "clone") }

MkDirFailed(p) ==
    /\ Returned(p) /\ res[p] = "err"
    /\ Len(trace[p]) = 2
    /\ trace[p][2] = E("mkdir", Me(p), 0, FALSE)

(* C19: of the installs of one package started when it has no source        *)
(* directory at most one invokes clone, the one whose create_dir made the   *)
(* directory; any other install that is past its existence test and its     *)
(* create_dir has left with the error of create_dir, or found the           *)
(* directory and went on to fetch, never to clone.                          *)
C19_OneClone ==
    /\ Cardinality(Cloners) <= 1
    /\ \A p \in Procs :
           /\ (SawDir(p) /\ Len(trace[p]) >= 2) => trace[p][2].op = "spawn" /\ trace[p][2].what = "fetch"
           /\ (SawNoDir(p) /\ Len(trace[p]) >= 2) =>
                  \/ MkDirFailed(p)
                  \/ /\ trace[p][2] = E("mkdir", Me(p), 0, TRUE)
                     /\ pc[p] = "spawn_clone" \/ Cloners = {p}
           /\ p \in Cloners => ~HasEvent(p, "spawn", "fetch")
           /\ HasEvent(p, "spawn", "fetch") => SawDir(p)

(* a fetch is running while the clone of the other install still is *)
C19_Witness ==
    /\ pc[1] = "wait_clone" /\ "gix" \in running[1]
    /\ pc[2] = "wait_fetch" /\ "gix" \in running[2]
    /\ Cloners = {1}

(* ------------- several artifacts with one destination ------------------ *)
(* the declared artifacts of p whose destination is n *)
Sharing(p, n) == { i \in 1..Len(Artifacts(p)) : DstName(Artifacts(p)[i]) = n }

LastSharing(p, n) ==
    Artifacts(p)[CHOOSE i \in Sharing(p, n) : \A k \in Sharing(p, n) : k <= i]

(* every copy of the install was written to its destination itself *)
NoWriteThrough(p) ==
    \A j \in 1..Len(trace[p]) :
        trace[p][j].op = "copy" => trace[p][j].what = DstName(Artifacts(p)[trace[p][j].i])

(* C20 as stated: after a successful install a destination that several     *)
(* artifacts of the package share holds exactly the entry of the last of    *)
(* them in declared order.                                                  *)
C20_Original ==
    \A p \in Procs : \A n \in Names :
        (Returned(p) /\ res[p] = "ok" /\ Cardinality(Sharing(p, n)) >= 2) =>
            bin[n] = NewEntry(p, LastSharing(p, n))

(* C20 amended: as above for an install none of whose copies was written    *)
(* through a symbolic link. When the remove of a step fails, a Sym step     *)
(* fails on the earlier entry, and the install with it, and a Bin step      *)
(* writes through an earlier symlink, which stays at the destination.       *)
C20_LastDeclaredWins ==
    \A p \in Procs : \A n \in Names :
        /\ (Returned(p) /\ res[p] = "ok" /\ Cardinality(Sharing(p, n)) >= 2
                /\ NoWriteThrough(p)) =>
               bin[n] = NewEntry(p, LastSharing(p, n))
        /\ (Returned(p) /\ res[p] = "ok" /\ Cardinality(Sharing(p, n)) >= 2
                /\ LastSharing(p, n).tag = "Sym") =>
               bin[n] = NewEntry(p, LastSharing(p, n))

C20_Witness ==
    /\ Returned(1) /\ res[1] = "ok"
    /\ Artifacts(1) = <<Sym("b", "a"), Bin("a", Some("b"))>>
    /\ NoWriteThrough(1)
    /\ bin["b"] = File(<<"p", "a", "fresh">>)
    /\ snap[1]["b"] = Link("a")

====
